---- MODULE Spec2Model ----
(***************************************************************************)
(* Main-window translation pipeline of AnnaTranslator (src/src/App.vue).   *)
(*                                                                         *)
(* translate() is an async function: every piece of it between two awaits  *)
(* runs atomically on the JavaScript event loop, and the pieces of         *)
(* different invocations interleave freely.  Each invocation is a record   *)
(* in `calls`; its field pc is the await it is suspended at.               *)
(*                                                                         *)
(* Strings are sequences of characters.  An AbortController is identified  *)
(* with the index of the invocation that created it; Null is `null`.       *)
(* Aborting a controller is modelled as the pending await of its request   *)
(* rejecting with the AbortError that the catch clause at App.vue:201      *)
(* tests for.  The cache and the history list live in the backend, whose   *)
(* commands are reached through invoke(); they are modelled from spec.md   *)
(* sections 4.2 and 4.4.                                                   *)
(***************************************************************************)
EXTENDS Integers, Sequences, FiniteSets, TLC

\* ---------------------------------------------------------------- bounds
MaxCalls == 2     \* translate() invocations that pass the content check
MaxLen == 1       \* characters the accumulator receives from streams
MaxFaults == 2    \* bind failures of the HTTP listener in one run
MaxHistory == 2   \* entries other windows append while the history window is open
MaxFetches == 2   \* get_translation_history invocations pending at once
MaxAppends == 6   \* appends to a history list that is two short of its cap
MaxPosts == 2     \* POSTs to /v1/chat/completions in one run
MaxSync == 2      \* set_openai_compatible_input invocations pending at once
MaxRefreshes == 2 \* refreshFromPersistence calls running at once
MaxPersists == 2  \* persistSettings calls of the window in one run
MaxOthers == 2    \* writes to the settings store by other windows

\* ------------------------------------------------------------ value sets
Null == 0
None == <<"none">>
Failure == <<"rejected">>
WS == " "
Payloads == { <<>>, <<WS>>, <<WS, "a">>, <<"b">> }
DeltaChars == { "x", WS }
ApiKeys == { <<>>, <<"k">> }
ErrMessages == { <<"boom">>, None }
Pending == <<"pending">>
DefaultSettings == 0
BarHeight == 1
OriginalHeight == 3
OriginalY == 2
MaxFocusEvents == 6
MaxBarTasks == 2
Empty == 0
Versions == { 1, 2 }
Topics == { "incoming_text", "http_server_failed" }
Ports == { 1, 2 }
FaultMessages == { "m", "absent" }
FaultPayloads == { << port, msg >> : port \in Ports, msg \in FaultMessages }
Entries == { [ original |-> <<"a">>, translation |-> <<ch>> ] :
               ch \in { "x", "y" } }

\* ----------------------------------------------------------------- state
VARIABLES
  isTauri,         \* App.vue:51  environment probe, fixed for a run
  apiKey,          \* settings.value.apiKey
  isPaused,        \* App.vue:67
  originalText,    \* App.vue:38
  translatedText,  \* App.vue:39  the accumulator shared by all invocations
  streaming,       \* App.vue:40
  controller,      \* App.vue:49
  lastMessage,     \* last toast shown through message.*
  openAIConstructor, \* openaiClient.ts:1  TRUE once the module is loaded
  calls,           \* invocations of translate() that passed line 145
  reqLog,          \* invocations that issued a completion request, in order
  cache,           \* backend translation cache
  history,         \* backend history list, oldest first
  \* main window life cycle (App.vue:92-134, 390-402)
  mainPc,          \* the await onMounted is suspended at
  mainAlive,       \* FALSE once onBeforeUnmount has run
  listenReply,     \* answer to the pending listen() of the main window
  pollReply,       \* answer to get_http_server_error
  listeners,       \* topics the main window is subscribed to at the broadcaster
  unlistenFns,     \* App.vue:48  topics whose unlisten function was pushed
  portError,       \* App.vue:42
  serverPort,      \* settings.value.serverPort
  faults,          \* backend: bind failures so far, the last one is pollable
  faultQueue,      \* http_server_failed events travelling to the main window
  \* history window (HistoryWindow.vue:23-64)
  hwPc,            \* the await onMounted is suspended at
  hwAlive,         \* FALSE once onBeforeUnmount has run
  entries,         \* HistoryWindow.vue:23
  loading,         \* HistoryWindow.vue:24
  fetches,         \* pending refreshHistory calls, oldest first
  hwListenReply,   \* answer to the pending listenTranslationHistoryUpdates
  hwListeners,     \* TRUE while subscribed to translation_history_updated
  hwUnlistenFns,   \* HistoryWindow.vue:26  TRUE once unlisten was pushed
  updates,         \* translation_history_updated events travelling to it
  \* history log (spec.md 4.4)
  appended,        \* every entry the log was ever given, in arrival order
  \* OpenAI-compatible input (App.vue:80-84, 301-308; README.md)
  openaiCompatibleInput, \* settings.value.openaiCompatibleInput
  syncQueue,       \* set_openai_compatible_input invocations not yet handled
  compatEnabled,   \* backend: the flag as last set
  httpLog,         \* backend: POSTs to /v1/chat/completions answered so far
  incoming,        \* incoming_text events travelling to the main window
  \* bookkeeping for the streams (not program state)
  own,             \* per invocation: the deltas its own request has streamed
  \* settings (useSettingsState, part_004:115-173)
  settingsVal,     \* settings.value, a version of the settings
  syncingFromStore, \* part_004:117
  refreshes,       \* refreshFromPersistence calls that have not finished
  timers,          \* setTimeout callbacks of part_004:125 not yet fired
  subscribed,      \* store.onChange registered (part_004:141)
  changes,         \* store change notifications travelling to the window
  persists,        \* persistSettings calls of this window, in order
  stored,          \* the settings store: the value under STORAGE_KEY
  legacy,          \* localStorage: the value under STORAGE_KEY
  others,          \* writes to the store by other windows so far
  \* title bar (part_007:368-442)
  focused,         \* the window has the input focus
  titleBarVisible, \* part_007: titleBarVisible.value
  handlingTitleBar, \* part_007: handlingTitleBar
  winHeight,       \* outer height of the window, in bar heights
  winY,            \* outer y position of the window, in bar heights
  barTasks,        \* hideTitleBar / showTitleBar calls that have not finished
  focusEvents      \* focus and blur events delivered so far

tvars == << isTauri, apiKey, isPaused, originalText, translatedText, streaming,
            controller, lastMessage, openAIConstructor, calls, reqLog, cache,
            history >>

mvars == << mainPc, mainAlive, listenReply, pollReply, listeners, unlistenFns,
            portError, serverPort, faults, faultQueue >>

hvars == << hwPc, hwAlive, entries, loading, fetches, hwListenReply,
            hwListeners, hwUnlistenFns, updates >>

lvars == << appended >>

cvars == << openaiCompatibleInput, syncQueue, compatEnabled, httpLog,
            incoming >>

gvars == << own >>

svars == << settingsVal, syncingFromStore, refreshes, timers, subscribed,
            changes, persists, stored, legacy, others >>

bvars == << focused, titleBarVisible, handlingTitleBar, winHeight, winY,
           barTasks, focusEvents >>
xvars == << lvars, cvars, gvars, svars, bvars >>

\* what the history log and the compatible input leave alone
restLog == << mvars, hvars, cvars, gvars, svars, bvars >>
restCompat == << mvars, hvars, lvars, gvars, svars, bvars >>

vars == << tvars, mvars, hvars, xvars >>

Calls == DOMAIN calls

\* ------------------------------------------------------- pure operators
RECURSIVE TrimStart(_)
TrimStart(s) ==
  IF s # <<>> /\ Head(s) = WS THEN TrimStart(Tail(s)) ELSE s

RECURSIVE TrimEnd(_)
TrimEnd(s) ==
  IF s # <<>> /\ s[Len(s)] = WS THEN TrimEnd(SubSeq(s, 1, Len(s) - 1)) ELSE s

Trim(s) == TrimEnd(TrimStart(s))

Keys == { Trim(p) : p \in Payloads } \ { <<>> }

Truthy(s) == s # <<>> /\ s # None /\ s # Failure

\* ------------------------------------------------------- call records
\* pc: the await an invocation is suspended at
\*   lookupSent   get_cached_translation invoked, backend has not answered
\*   lookupReply  the answer (field reply) travels back to the window
\*   ctor         await getOpenAIConstructor()
\*   requesting   await client.chat.completions.create(...)
\*   streaming    inside for await (const part of completion)
\*   storeSent    store_translation invoked with field arg
\*   storeReply   its answer (field reply) travels back
\*   done         translate() has returned
\* outcome records how the invocation ended (none while it runs), arg the
\* translation it passed to store_translation, recorded the history entry it
\* asked the backend to append, reply the last answer or rejection it got;
\* reqAtStart and dupAtStart record what it found when it was called.
NewCall(content, force, pc, outcome, dup) ==
  [ content |-> content, force |-> force, pc |-> pc, aborted |-> FALSE,
    reply |-> None, arg |-> None, outcome |-> outcome, recorded |-> <<>>,
    reqAtStart |-> Len(reqLog), dupAtStart |-> dup ]

InFlight(c) == calls[c].pc \in { "requesting", "streaming" }

\* The event loop: once the openai module is loaded, getOpenAIConstructor()
\* resolves at once, and the continuation of its await is a microtask that
\* runs before the next event, timer or reply is delivered to the window.
\* Quiet holds when no such continuation is queued.
Quiet == \A c \in Calls : ~(calls[c].pc = "ctor" /\ openAIConstructor)

\* AbortController.abort() on controller.value (optional chaining on null)
Abort(cs, ctl) ==
  IF ctl = Null THEN cs ELSE [ cs EXCEPT ![ctl].aborted = TRUE ]

\* mutant of CacheHit: the test inverted
CacheHitInverted(cached) == ~Truthy(cached)

\* App.vue:154  if (cached)
CacheHit(cached) == Truthy(cached)

\* App.vue:165  if (!settings.value.apiKey)
MissingApiKey(key) == key = <<>>

\* mutant of IsAbortError: the catch clause tests for another error name
IsAbortErrorWrongName(name) == name = "APIUserAbortError"

\* App.vue:201  (error as Error)?.name === "AbortError"
IsAbortError(name) == name = "AbortError"

\* App.vue:202  (error as Error)?.message ?? t("app.messages.translationFailed")
ErrorText(msg) == IF msg = None THEN <<"translationFailed">> ELSE msg

\* mutant of ShouldStore: the shouldPersist flag is not consulted
ShouldStoreIgnoringFlag(shouldPersist, text, tauri) == text # <<>> /\ tauri

\* App.vue:208  shouldPersist && translatedText.value && isTauri
ShouldStore(shouldPersist, text, tauri) == shouldPersist /\ text # <<>> /\ tauri

\* App.vue:219  if (translatedText.value)
ShouldRecord(text) == text # <<>>

\* mutant of HistoryEntry: the blank-translation test is missing
HistoryEntryUnchecked(original, translation) ==
  IF ~isTauri
    THEN <<>>
    ELSE << [ original |-> original, translation |-> translation ] >>

\* persistTranslationHistory (App.vue:385-388) calling recordTranslationHistory
\* (history.ts:13-21): the entries the backend is asked to append: one or none
HistoryEntry(original, translation) ==
  IF Trim(translation) = <<>> \/ ~isTauri
    THEN <<>>
    ELSE << [ original |-> original, translation |-> translation ] >>

\* spec.md 4.4: the cap of the history log
HistoryCap == 1000

\* spec.md 4.4: truncation to the cap, oldest entries dropped
Truncate(h) ==
  IF Len(h) > HistoryCap
    THEN SubSeq(h, Len(h) - HistoryCap + 1, Len(h))
    ELSE h

\* mutant of RecordHistory: at the cap the newest entries are dropped
RecordHistoryDropNewest(h, entry) ==
  SubSeq(h \o entry, 1, IF Len(h \o entry) > HistoryCap
                          THEN HistoryCap ELSE Len(h \o entry))

\* backend record_translation_history (spec.md 4.4 append): append to the
\* list, then truncate to the cap
RecordHistory(h, entry) == Truncate(h \o entry)

\* ------------------------------------------------------------------ Init
\* the main window mounted without incident (both listeners registered, no
\* bind failure)
MainMounted ==
  /\ mainPc = "mounted"
  /\ mainAlive = TRUE
  /\ listenReply = Pending
  /\ pollReply = None
  /\ listeners = Topics
  /\ unlistenFns = Topics
  /\ portError = None
  /\ serverPort = 1
  /\ faults = <<>>
  /\ faultQueue = <<>>

\* the history log has recorded nothing beyond what `history` holds
CompatIdle ==
  /\ openaiCompatibleInput = FALSE
  /\ syncQueue = <<>>
  /\ compatEnabled = FALSE
  /\ httpLog = <<>>
  /\ incoming = <<>>

LogIdle == appended = <<>>

DeltasIdle == own = [ c \in 1..MaxCalls |-> <<>> ]

\* the settings are loaded and nothing is pending
SettingsIdle ==
  /\ settingsVal = DefaultSettings
  /\ syncingFromStore = FALSE
  /\ refreshes = <<>>
  /\ timers = 0
  /\ subscribed = TRUE
  /\ changes = 0
  /\ persists = <<>>
  /\ stored = Empty
  /\ legacy = Empty
  /\ others = 0

\* the window has the focus, the title bar is shown and the window has the
\* geometry it was given
TitleBarIdle ==
  /\ focused = TRUE
  /\ titleBarVisible = TRUE
  /\ handlingTitleBar = FALSE
  /\ winHeight = OriginalHeight
  /\ winY = OriginalY
  /\ barTasks = <<>>
  /\ focusEvents = 0

ExtrasIdle ==
  /\ LogIdle
  /\ CompatIdle
  /\ DeltasIdle
  /\ SettingsIdle
  /\ TitleBarIdle

\* the history window is not open
HistoryClosed ==
  /\ hwPc = "closed"
  /\ hwAlive = FALSE
  /\ entries = <<>>
  /\ loading = FALSE
  /\ fetches = <<>>
  /\ hwListenReply = Pending
  /\ hwListeners = FALSE
  /\ hwUnlistenFns = FALSE
  /\ updates = 0

Init ==
  /\ MainMounted
  /\ HistoryClosed
  /\ ExtrasIdle
  /\ isTauri \in BOOLEAN
  /\ apiKey \in ApiKeys
  /\ isPaused = FALSE
  /\ originalText = <<>>
  /\ translatedText = <<>>
  /\ streaming = FALSE
  /\ controller = Null
  /\ lastMessage = << "none", <<>> >>
  /\ openAIConstructor = FALSE
  /\ calls = <<>>
  /\ reqLog = <<>>
  /\ cache = [ k \in Keys |-> None ]
  /\ history = <<>>

\* mutant of AfterLookup: the return after the missing-credential toast is
\* lost, so the invocation goes on to build the client
AfterLookupNoReturn(cs, c) ==
  IF MissingApiKey(apiKey)
    THEN /\ lastMessage' = << "error", <<"missingApiKey">> >>
         /\ calls' = [ cs EXCEPT ![c].pc = "ctor", ![c].outcome = "nokey",
                                 ![c].reply = None ]
    ELSE /\ lastMessage' = lastMessage
         /\ calls' = [ cs EXCEPT ![c].pc = "ctor", ![c].reply = None ]

\* ----------------------------------------------------------- translate()
\* App.vue:165-174: the credential check and the await of the constructor
\* (the part shared by the forced path and the path after a cache miss)
AfterLookup(cs, c) ==
  IF MissingApiKey(apiKey)
    THEN /\ lastMessage' = << "error", <<"missingApiKey">> >>
         /\ calls' = [ cs EXCEPT ![c].pc = "done", ![c].outcome = "nokey",
                                 ![c].reply = None ]
    ELSE /\ lastMessage' = lastMessage
         /\ calls' = [ cs EXCEPT ![c].pc = "ctor", ![c].reply = None ]

\* mutant of LookupCatch: the rejection of the lookup ends the invocation
LookupCatchReturns(cs, c) ==
  /\ lastMessage' = lastMessage
  /\ calls' = [ cs EXCEPT ![c].pc = "done", ![c].outcome = "failed",
                          ![c].reply = None ]

\* App.vue:161-163  catch (error) { console.error(...) }: the rejection of
\* get_cached_translation is logged and translate() goes on at line 165
LookupCatch(cs, c) == AfterLookup(cs, c)

\* mutant of ReturnOnPause: the running stream is aborted before the pause
\* switch is tested
ReturnOnPauseAfterAbort(cs, ctl) == Abort(cs, ctl)

\* App.vue:138-140  while paused translate() returns before line 147 is
\* reached: the invocations, the running one included, are left as they are
ReturnOnPause(cs, ctl) == cs

\* mutant of ReturnOnEmpty: the running stream is aborted before the content
\* is tested
ReturnOnEmptyAfterAbort(cs, ctl) == Abort(cs, ctl)

\* App.vue:141-145  an empty content returns before line 147 is reached: the
\* invocations, the running one included, are left as they are
ReturnOnEmpty(cs, ctl) == cs

\* mutant of UsesCache: the force option is ignored
UsesCacheIgnoringForce(force) == isTauri

\* App.vue:151  if (isTauri && !force): whether translate() consults the cache
UsesCache(force) == isTauri /\ ~force

\* App.vue:136-153 (and 165-170 when the lookup is skipped): the synchronous
\* head of translate(text, {force}).  originalText is set by the caller.
Translate(text, force) ==
  LET content == Trim(text) IN
  IF isPaused
    THEN /\ calls' = ReturnOnPause(calls, controller)
         /\ UNCHANGED << isTauri, openAIConstructor, apiKey, isPaused,
                         translatedText, streaming, controller, lastMessage,
                         reqLog, cache, history >>
  ELSE IF content = <<>>
    THEN /\ lastMessage' = << "warning", <<"noContent">> >>
         /\ calls' = ReturnOnEmpty(calls, controller)
         /\ UNCHANGED << isTauri, openAIConstructor, apiKey, isPaused,
                         translatedText, streaming, controller, reqLog,
                         cache, history >>
  ELSE
    LET dup == \E d \in Calls : /\ calls[d].content = content
                                /\ InFlight(d) /\ ~calls[d].aborted
                                /\ cache[content] = None
        c == Len(calls) + 1
        lookup == UsesCache(force)
        cs == Append(Abort(calls, controller),
                     NewCall(content, force,
                             IF lookup THEN "lookupSent" ELSE "ctor",
                             "none", dup))
    IN /\ Len(calls) < MaxCalls
       /\ controller' = Null
       /\ streaming' = FALSE
       /\ IF lookup
            THEN calls' = cs /\ lastMessage' = lastMessage
            ELSE AfterLookup(cs, c)
       /\ UNCHANGED << isTauri, openAIConstructor, apiKey, isPaused,
                       translatedText, reqLog, cache, history >>

\* mutant of IncomingText: the listener shows the text but does not call
\* translate()
IncomingTextNoTranslate(payload) ==
  /\ Quiet
  /\ isTauri
  /\ payload # <<>>
  /\ originalText' = payload
  /\ UNCHANGED << isTauri, openAIConstructor, apiKey, isPaused,
                  translatedText, streaming, controller, lastMessage, calls,
                  reqLog, cache, history >>

\* App.vue:94-100  the incoming_text listener; the events are emitted by the
\* Tauri backend
IncomingText(payload) ==
  /\ Quiet
  /\ isTauri
  /\ payload # <<>>
  /\ originalText' = payload
  /\ Translate(payload, FALSE)

\* App.vue:246-249
HandleManualTranslate(manualInput) ==
  /\ Quiet
  /\ originalText' = manualInput
  /\ Translate(manualInput, FALSE)

\* App.vue:251-258
HandleRetranslate ==
  LET content == Trim(originalText) IN
  /\ Quiet
  /\ originalText' = originalText
  /\ IF content = <<>>
       THEN /\ lastMessage' = << "warning", <<"noContentForRetranslate">> >>
            /\ UNCHANGED << isTauri, openAIConstructor, apiKey, isPaused,
                            translatedText, streaming, controller, calls,
                            reqLog, cache, history >>
       ELSE Translate(content, TRUE)

\* backend get_cached_translation (spec.md 4.2 lookup): answers with the
\* stored translation or absent; the invoke may also reject
BackendLookup(c) ==
  /\ calls[c].pc = "lookupSent"
  /\ \E r \in { cache[calls[c].content], Failure } :
       calls' = [ calls EXCEPT ![c].pc = "lookupReply", ![c].reply = r ]
  /\ UNCHANGED << isTauri, openAIConstructor, apiKey, isPaused, originalText,
                  translatedText, streaming, controller, lastMessage, reqLog,
                  cache, history >>

\* App.vue:153-168  the continuation after
\* await invoke("get_cached_translation")
LookupReturns(c) ==
  /\ Quiet
  /\ calls[c].pc = "lookupReply"
  /\ IF calls[c].reply # Failure /\ CacheHit(calls[c].reply)
       THEN LET entry == HistoryEntry(calls[c].content, calls[c].reply) IN
            /\ translatedText' = calls[c].reply
            /\ history' = RecordHistory(history, entry)
            /\ calls' = [ calls EXCEPT ![c].pc = "done", ![c].outcome = "hit",
                                       ![c].reply = None,
                                       ![c].recorded = entry ]
            /\ lastMessage' = lastMessage
       ELSE /\ IF calls[c].reply = Failure
                 THEN LookupCatch(calls, c)
                 ELSE AfterLookup(calls, c)
            /\ UNCHANGED << translatedText, history >>
  /\ UNCHANGED << isTauri, openAIConstructor, apiKey, isPaused, originalText,
                  streaming, controller, reqLog, cache >>

\* App.vue:170-193 and openaiClient.ts:3-8  the continuation after
\* await getOpenAIConstructor(): the module is loaded, a new AbortController
\* is installed and the completion request is issued
ClientReady(c) ==
  /\ calls[c].pc = "ctor"
  /\ openAIConstructor' = TRUE
  /\ controller' = c
  /\ translatedText' = <<>>
  /\ streaming' = TRUE
  /\ calls' = [ calls EXCEPT ![c].pc = "requesting" ]
  /\ reqLog' = Append(reqLog, c)
  /\ UNCHANGED << isTauri, apiKey, isPaused, originalText, lastMessage,
                  cache, history >>

\* App.vue:183-195  create() resolves with the stream
CreateResolves(c) ==
  /\ Quiet
  /\ calls[c].pc = "requesting"
  /\ ~calls[c].aborted
  /\ calls' = [ calls EXCEPT ![c].pc = "streaming" ]
  /\ UNCHANGED << isTauri, openAIConstructor, apiKey, isPaused, originalText,
                  translatedText, streaming, controller, lastMessage, reqLog,
                  cache, history >>

\* App.vue:195-198  one part of the stream
StreamChunk(c, delta) ==
  /\ Quiet
  /\ calls[c].pc = "streaming"
  /\ ~calls[c].aborted
  /\ Len(translatedText) < MaxLen
  /\ translatedText' = translatedText \o delta
  /\ UNCHANGED << isTauri, openAIConstructor, apiKey, isPaused, originalText,
                  streaming, controller, lastMessage, calls, reqLog, cache,
                  history >>

\* mutant of FinallyController: the finally clause does not reset controller
FinallyControllerKeep(cur) == cur

\* App.vue:203-206  the finally clause
FinallyStreaming(cur) == FALSE
FinallyController(cur) == Null

\* App.vue:199, 203-222  the stream ends normally: shouldPersist = true, the
\* finally clause, then the store is invoked with the accumulator, or, when
\* nothing is stored, line 219 follows at once
StreamEnds(c) ==
  /\ Quiet
  /\ calls[c].pc = "streaming"
  /\ ~calls[c].aborted
  /\ streaming' = FinallyStreaming(streaming)
  /\ controller' = FinallyController(controller)
  /\ IF ShouldStore(TRUE, translatedText, isTauri)
       THEN /\ calls' = [ calls EXCEPT ![c].pc = "storeSent",
                                       ![c].arg = translatedText ]
            /\ history' = history
       ELSE LET entry == IF ShouldRecord(translatedText)
                           THEN HistoryEntry(calls[c].content, translatedText)
                           ELSE <<>> IN
            /\ calls' = [ calls EXCEPT ![c].pc = "done",
                                       ![c].outcome = "completed",
                                       ![c].recorded = entry ]
            /\ history' = RecordHistory(history, entry)
  /\ UNCHANGED << isTauri, openAIConstructor, apiKey, isPaused, originalText,
                  translatedText, lastMessage, reqLog, cache >>

\* App.vue:200-222  create() or the stream rejects with an error (name, msg):
\* the catch clause, the finally clause and, unless the catch returned, the
\* lines after the try statement with shouldPersist still false
Rejected(c, name, msg) ==
  /\ InFlight(c)
  /\ streaming' = FinallyStreaming(streaming)
  /\ controller' = FinallyController(controller)
  /\ IF IsAbortError(name)
       THEN /\ calls' = [ calls EXCEPT ![c].pc = "done",
                                       ![c].outcome = "aborted" ]
            /\ UNCHANGED << lastMessage, history >>
       ELSE LET store == ShouldStore(FALSE, translatedText, isTauri)
                entry == IF ShouldRecord(translatedText)
                           THEN HistoryEntry(calls[c].content, translatedText)
                           ELSE <<>> IN
            /\ lastMessage' = << "error", ErrorText(msg) >>
            /\ IF store
                 THEN /\ calls' = [ calls EXCEPT ![c].pc = "storeSent",
                                                 ![c].outcome = "failed",
                                                 ![c].reply = msg,
                                                 ![c].arg = translatedText ]
                      /\ history' = history
                 ELSE /\ calls' = [ calls EXCEPT ![c].pc = "done",
                                                 ![c].outcome = "failed",
                                                 ![c].reply = msg,
                                                 ![c].recorded = entry ]
                      /\ history' = RecordHistory(history, entry)
  /\ UNCHANGED << isTauri, openAIConstructor, apiKey, isPaused, originalText,
                  translatedText, reqLog, cache >>

\* mutant of RequestFails: the failed request is issued again
RequestFailsRetry(c, msg) ==
  /\ Quiet
  /\ ~calls[c].aborted
  /\ InFlight(c)
  /\ calls' = [ calls EXCEPT ![c].pc = "ctor" ]
  /\ UNCHANGED << isTauri, openAIConstructor, apiKey, isPaused, originalText,
                  translatedText, streaming, controller, lastMessage, reqLog,
                  cache, history >>

\* the provider or the network fails the request (not an abort)
RequestFails(c, msg) ==
  /\ Quiet
  /\ ~calls[c].aborted
  /\ Rejected(c, "Error", msg)

\* the signal of the request was aborted: its pending await rejects
AbortRejects(c) ==
  /\ calls[c].aborted
  /\ Rejected(c, "AbortError", None)

\* backend store_translation (spec.md 4.2 store): a durable write, or a
\* failure reported to the caller.  spec.md leaves a store of a different
\* value for an existing key open: the entry is overwritten or kept.
BackendStore(c) ==
  /\ calls[c].pc = "storeSent"
  /\ LET k == calls[c].content IN
     \/ /\ cache' = [ cache EXCEPT ![k] = calls[c].arg ]
        /\ calls' = [ calls EXCEPT ![c].pc = "storeReply",
                                   ![c].reply = <<"ok">> ]
     \/ /\ cache[k] # None
        /\ cache' = cache
        /\ calls' = [ calls EXCEPT ![c].pc = "storeReply",
                                   ![c].reply = <<"ok">> ]
     \/ /\ cache' = cache
        /\ calls' = [ calls EXCEPT ![c].pc = "storeReply",
                                   ![c].reply = Failure ]
  /\ UNCHANGED << isTauri, openAIConstructor, apiKey, isPaused, originalText,
                  translatedText, streaming, controller, lastMessage, reqLog,
                  history >>

\* App.vue:214-222  the continuation after await invoke("store_translation"):
\* a rejection is logged, then line 219 reads the accumulator again
StoreReturns(c) ==
  /\ Quiet
  /\ calls[c].pc = "storeReply"
  /\ LET entry == IF ShouldRecord(translatedText)
                    THEN HistoryEntry(calls[c].content, translatedText)
                    ELSE <<>> IN
     /\ calls' = [ calls EXCEPT ![c].pc = "done",
                                ![c].reply =
                                  IF calls[c].outcome = "none" THEN None
                                  ELSE calls[c].reply,
                                ![c].outcome =
                                  IF calls[c].outcome = "none" THEN "completed"
                                  ELSE calls[c].outcome,
                                ![c].recorded = entry ]
     /\ history' = RecordHistory(history, entry)
  /\ UNCHANGED << isTauri, openAIConstructor, apiKey, isPaused, originalText,
                  translatedText, streaming, controller, lastMessage, reqLog,
                  cache >>

\* App.vue:242-244
StopStream ==
  /\ Quiet
  /\ controller # Null
  /\ ~calls[controller].aborted
  /\ calls' = Abort(calls, controller)
  /\ UNCHANGED << isTauri, openAIConstructor, apiKey, isPaused, originalText,
                  translatedText, streaming, controller, lastMessage, reqLog,
                  cache, history >>

\* App.vue:238-240
HandlePause(play) ==
  /\ Quiet
  /\ isPaused # ~play
  /\ isPaused' = ~play
  /\ UNCHANGED << isTauri, openAIConstructor, apiKey, originalText,
                  translatedText, streaming, controller, lastMessage, calls,
                  reqLog, cache, history >>

\* the settings window changes the credential; useSettingsState assigns it
SettingsChange(key) ==
  /\ Quiet
  /\ apiKey # key
  /\ apiKey' = key
  /\ UNCHANGED << isTauri, openAIConstructor, isPaused, originalText,
                  translatedText, streaming, controller, lastMessage, calls,
                  reqLog, cache, history >>

\* ------------------------------------------------------------------ Next
\* Spec is the window with the pause switch left on "play"; SpecPause adds
\* the switch.
Next ==
  \/ \E p \in Payloads : IncomingText(p) /\ UNCHANGED << mvars, hvars, xvars >>
  \/ \E p \in Payloads : HandleManualTranslate(p) /\ UNCHANGED << mvars, hvars, xvars >>
  \/ HandleRetranslate /\ UNCHANGED << mvars, hvars, xvars >>
  \/ StopStream /\ UNCHANGED << mvars, hvars, xvars >>
  \/ \E key \in ApiKeys : SettingsChange(key) /\ UNCHANGED << mvars, hvars, xvars >>
  \/ \E c \in Calls : BackendLookup(c) /\ UNCHANGED << mvars, hvars, xvars >>
  \/ \E c \in Calls : LookupReturns(c) /\ UNCHANGED << mvars, hvars, xvars >>
  \/ \E c \in Calls : ClientReady(c) /\ UNCHANGED << mvars, hvars, xvars >>
  \/ \E c \in Calls : CreateResolves(c) /\ UNCHANGED << mvars, hvars, xvars >>
  \/ \E c \in Calls : \E ch \in DeltaChars : StreamChunk(c, <<ch>>) /\ UNCHANGED << mvars, hvars, xvars >>
  \/ \E c \in Calls : StreamEnds(c) /\ UNCHANGED << mvars, hvars, xvars >>
  \/ \E c \in Calls : \E msg \in ErrMessages : RequestFails(c, msg) /\ UNCHANGED << mvars, hvars, xvars >>
  \/ \E c \in Calls : AbortRejects(c) /\ UNCHANGED << mvars, hvars, xvars >>
  \/ \E c \in Calls : BackendStore(c) /\ UNCHANGED << mvars, hvars, xvars >>
  \/ \E c \in Calls : StoreReturns(c) /\ UNCHANGED << mvars, hvars, xvars >>

Spec == Init /\ [][Next]_vars

NextPause ==
  \/ Next
  \/ \E play \in BOOLEAN : HandlePause(play) /\ UNCHANGED << mvars, hvars, xvars >>

SpecPause == Init /\ [][NextPause]_vars

\* SpecPauseDesktop: the desktop application with a credential set and the
\* pause switch in use
InitPauseDesktop ==
  /\ Init
  /\ isTauri
  /\ apiKey = <<"k">>

NextPauseDesktop ==
  \/ \E p \in Payloads : IncomingText(p) /\ UNCHANGED << mvars, hvars, xvars >>
  \/ \E p \in Payloads : HandleManualTranslate(p) /\ UNCHANGED << mvars, hvars, xvars >>
  \/ HandleRetranslate /\ UNCHANGED << mvars, hvars, xvars >>
  \/ StopStream /\ UNCHANGED << mvars, hvars, xvars >>
  \/ \E play \in BOOLEAN : HandlePause(play) /\ UNCHANGED << mvars, hvars, xvars >>
  \/ \E c \in Calls : BackendLookup(c) /\ UNCHANGED << mvars, hvars, xvars >>
  \/ \E c \in Calls : LookupReturns(c) /\ UNCHANGED << mvars, hvars, xvars >>
  \/ \E c \in Calls : ClientReady(c) /\ UNCHANGED << mvars, hvars, xvars >>
  \/ \E c \in Calls : CreateResolves(c) /\ UNCHANGED << mvars, hvars, xvars >>
  \/ \E c \in Calls : \E ch \in DeltaChars :
       StreamChunk(c, <<ch>>) /\ UNCHANGED << mvars, hvars, xvars >>
  \/ \E c \in Calls : StreamEnds(c) /\ UNCHANGED << mvars, hvars, xvars >>
  \/ \E c \in Calls : \E msg \in ErrMessages :
       RequestFails(c, msg) /\ UNCHANGED << mvars, hvars, xvars >>
  \/ \E c \in Calls : AbortRejects(c) /\ UNCHANGED << mvars, hvars, xvars >>
  \/ \E c \in Calls : BackendStore(c) /\ UNCHANGED << mvars, hvars, xvars >>
  \/ \E c \in Calls : StoreReturns(c) /\ UNCHANGED << mvars, hvars, xvars >>

SpecPauseDesktop == InitPauseDesktop /\ [][NextPauseDesktop]_vars

\* SpecWarm starts the desktop application with a cache persisted by an
\* earlier run: key "a" holds a translation an earlier stream produced.
InitWarm ==
  /\ MainMounted
  /\ HistoryClosed
  /\ ExtrasIdle
  /\ isTauri = TRUE
  /\ apiKey \in ApiKeys
  /\ isPaused = FALSE
  /\ originalText = <<>>
  /\ translatedText = <<>>
  /\ streaming = FALSE
  /\ controller = Null
  /\ lastMessage = << "none", <<>> >>
  /\ openAIConstructor = FALSE
  /\ calls = <<>>
  /\ reqLog = <<>>
  /\ \E t \in { <<ch>> : ch \in DeltaChars } :
       cache = [ k \in Keys |-> IF k = <<"a">> THEN t ELSE None ]
  /\ history = <<>>

SpecWarm == InitWarm /\ [][Next]_vars

\* ===================================================== main window mount
\* onMounted (App.vue:92-129) is an async function: it awaits the
\* registration of the incoming_text listener, then that of the
\* http_server_failed listener, then refreshPortError().  The broadcaster and
\* the bind failures are the backend's (spec.md 4.5, 4.6, 6): a bind failure
\* is stored as the pollable last fault and published to the subscribed
\* listeners in one step.

\* App.vue:115, 397  payload.message ?? t("app.messages.portListenFailed", {port})
Warning(payload) ==
  IF payload[2] = "absent" THEN << "portListenFailed", payload[1] >>
                           ELSE << payload[2] >>

IsFault(reply) == reply \in FaultPayloads

\* mutant of RefreshedPortError: the polled fault is dropped
RefreshedPortErrorDropped(reply, cur) == cur

\* App.vue:394-398  refreshPortError: portError after the poll answered
RefreshedPortError(reply, cur) ==
  IF IsFault(reply) THEN Warning(reply) ELSE cur

\* App.vue:395-396
RefreshedPort(reply, cur) == IF IsFault(reply) THEN reply[1] ELSE cur

\* the state right after the synchronous head of onMounted: listen() for
\* incoming_text has been called
InitMainWindow ==
  /\ HistoryClosed
  /\ ExtrasIdle
  /\ isTauri \in BOOLEAN
  /\ apiKey = <<"k">>
  /\ isPaused = FALSE
  /\ originalText = <<>>
  /\ translatedText = <<>>
  /\ streaming = FALSE
  /\ controller = Null
  /\ lastMessage = << "none", <<>> >>
  /\ openAIConstructor = FALSE
  /\ calls = <<>>
  /\ reqLog = <<>>
  /\ cache = [ k \in Keys |-> None ]
  /\ history = <<>>
  /\ mainPc = "listenText"
  /\ mainAlive = TRUE
  /\ listenReply = Pending
  /\ pollReply = Pending
  /\ listeners = {}
  /\ unlistenFns = {}
  /\ portError = None
  /\ serverPort \in Ports
  /\ faults \in { <<>> } \cup { << f >> : f \in FaultPayloads }
  /\ faultQueue = <<>>

PendingTopic ==
  IF mainPc = "listenText" THEN "incoming_text" ELSE "http_server_failed"

\* the event system answers a pending listen(): the listener is registered,
\* or the call rejects (always, outside the desktop application)
BackendListen ==
  /\ mainPc \in { "listenText", "listenFault" }
  /\ listenReply = Pending
  /\ \/ /\ isTauri
        /\ listeners' = listeners \cup { PendingTopic }
        /\ listenReply' = <<"ok">>
     \/ /\ listeners' = listeners
        /\ listenReply' = Failure
  /\ UNCHANGED << tvars, hvars, mainPc, mainAlive, pollReply, unlistenFns,
                  portError, serverPort, faults, faultQueue >>

\* App.vue:100-106  continuation after await listen("incoming_text")
ListenTextReturns ==
  /\ mainPc = "listenText"
  /\ listenReply # Pending
  /\ IF listenReply = Failure
       THEN /\ lastMessage' = << "error", <<"listenerInitFailed">> >>
            /\ unlistenFns' = unlistenFns
       ELSE /\ lastMessage' = lastMessage
            /\ unlistenFns' = unlistenFns \cup { "incoming_text" }
  /\ mainPc' = IF isTauri THEN "listenFault" ELSE "mounted"
  /\ listenReply' = Pending
  /\ UNCHANGED << isTauri, apiKey, isPaused, originalText, translatedText,
                  streaming, controller, openAIConstructor, calls, reqLog,
                  cache, history, hvars, mainAlive, pollReply, listeners,
                  portError, serverPort, faults, faultQueue >>

\* App.vue:122-128, 390-393  continuation after await
\* listen("http_server_failed"), up to the invoke of get_http_server_error
ListenFaultReturns ==
  /\ mainPc = "listenFault"
  /\ listenReply # Pending
  /\ unlistenFns' = IF listenReply = Failure
                      THEN unlistenFns
                      ELSE unlistenFns \cup { "http_server_failed" }
  /\ mainPc' = "poll"
  /\ UNCHANGED << tvars, hvars, mainAlive, listenReply, pollReply, listeners,
                  portError, serverPort, faults, faultQueue >>

\* backend get_http_server_error: the last fault, or null; the invoke may
\* also reject
BackendPoll ==
  /\ mainPc = "poll"
  /\ pollReply = Pending
  /\ pollReply' \in { IF faults = <<>> THEN None ELSE faults[Len(faults)],
                      Failure }
  /\ UNCHANGED << tvars, hvars, mainPc, mainAlive, listenReply, listeners,
                  unlistenFns, portError, serverPort, faults, faultQueue >>

\* App.vue:393-401  continuation of refreshPortError
PollReturns ==
  /\ mainPc = "poll"
  /\ pollReply # Pending
  /\ serverPort' = RefreshedPort(pollReply, serverPort)
  /\ portError' = RefreshedPortError(pollReply, portError)
  /\ mainPc' = "mounted"
  /\ UNCHANGED << tvars, hvars, mainAlive, listenReply, pollReply, listeners,
                  unlistenFns, faults, faultQueue >>

\* backend: the HTTP listener fails to bind (spec.md 4.6, 6)
BindFailure(payload) ==
  /\ isTauri
  /\ Len(faults) < MaxFaults
  /\ faults' = Append(faults, payload)
  /\ faultQueue' = IF "http_server_failed" \in listeners
                     THEN Append(faultQueue, payload)
                     ELSE faultQueue
  /\ UNCHANGED << tvars, hvars, mainPc, mainAlive, listenReply, pollReply,
                  listeners, unlistenFns, portError, serverPort >>

\* App.vue:109-120  the http_server_failed handler; an event that arrives
\* after the listener was removed is dropped
FaultEvent ==
  /\ faultQueue # <<>>
  /\ faultQueue' = Tail(faultQueue)
  /\ IF "http_server_failed" \in listeners
       THEN /\ serverPort' = Head(faultQueue)[1]
            /\ portError' = Warning(Head(faultQueue))
            /\ lastMessage' = << "error", Warning(Head(faultQueue)) >>
       ELSE UNCHANGED << serverPort, portError, lastMessage >>
  /\ UNCHANGED << isTauri, apiKey, isPaused, originalText, translatedText,
                  streaming, controller, openAIConstructor, calls, reqLog,
                  cache, history, hvars, mainPc, mainAlive, listenReply,
                  pollReply, listeners, unlistenFns, faults >>

\* App.vue:131-134  onBeforeUnmount: no stream is running in this
\* specification, so controller is null; every pushed unlisten is called
Unmount ==
  /\ mainAlive
  /\ mainAlive' = FALSE
  /\ listeners' = listeners \ unlistenFns
  /\ UNCHANGED << tvars, hvars, mainPc, listenReply, pollReply, unlistenFns,
                  portError, serverPort, faults, faultQueue >>

NextMainWindow ==
  \/ BackendListen /\ UNCHANGED xvars
  \/ ListenTextReturns /\ UNCHANGED xvars
  \/ ListenFaultReturns /\ UNCHANGED xvars
  \/ BackendPoll /\ UNCHANGED xvars
  \/ PollReturns /\ UNCHANGED xvars
  \/ \E payload \in FaultPayloads : BindFailure(payload) /\ UNCHANGED xvars
  \/ FaultEvent /\ UNCHANGED xvars
  \/ Unmount /\ UNCHANGED xvars

SpecMainWindow == InitMainWindow /\ [][NextMainWindow]_vars

\* ========================================================= history window
\* HistoryWindow.vue.  refreshHistory() sends get_translation_history and
\* replaces `entries` with the answer; onMounted awaits one refreshHistory()
\* and only then subscribes to translation_history_updated.  The history
\* list and its notification are the backend's (spec.md 4.4): an append
\* notifies the listeners subscribed at that moment.  Commands are answered,
\* and answers delivered, in the order the window sent them.

Ok(list) == << "ok", list >>

\* history.ts:23-32  fetchTranslationHistory: [] outside the desktop
\* application, else the answer of the backend is awaited
FetchSent == IF isTauri THEN Pending ELSE Ok(<<>>)

\* HistoryWindow.vue:31 with history.ts:26-31: the list that replaces
\* `entries`: the answer, or [] when the invoke rejected
Fetched(reply, cur) == IF reply = Failure THEN <<>> ELSE reply[2]

\* the state right after the synchronous head of onMounted: the first
\* refreshHistory() has sent its fetch
InitHistoryWindow ==
  /\ MainMounted
  /\ ExtrasIdle
  /\ isTauri \in BOOLEAN
  /\ apiKey = <<"k">>
  /\ isPaused = FALSE
  /\ originalText = <<>>
  /\ translatedText = <<>>
  /\ streaming = FALSE
  /\ controller = Null
  /\ lastMessage = << "none", <<>> >>
  /\ openAIConstructor = FALSE
  /\ calls = <<>>
  /\ reqLog = <<>>
  /\ cache = [ k \in Keys |-> None ]
  /\ history \in { <<>> } \cup { << e >> : e \in Entries }
  /\ isTauri \/ history = <<>>
  /\ hwPc = "fetch"
  /\ hwAlive = TRUE
  /\ entries = <<>>
  /\ loading = TRUE
  /\ fetches = << FetchSent >>
  /\ hwListenReply = Pending
  /\ hwListeners = FALSE
  /\ hwUnlistenFns = FALSE
  /\ updates = 0

\* HistoryWindow.vue:29-31  refreshHistory up to its await
RefreshHistory ==
  /\ Len(fetches) < MaxFetches
  /\ loading' = TRUE
  /\ fetches' = Append(fetches, FetchSent)

\* backend get_translation_history (spec.md 4.4 list): the list, oldest
\* first; the invoke may also reject
BackendList ==
  /\ \E i \in 1..Len(fetches) :
       /\ fetches[i] = Pending
       /\ \A j \in 1..(i - 1) : fetches[j] # Pending
       /\ \E r \in { Ok(history), Failure } :
            fetches' = [ fetches EXCEPT ![i] = r ]
  /\ UNCHANGED << tvars, mvars, hwPc, hwAlive, entries, loading,
                  hwListenReply, hwListeners, hwUnlistenFns, updates >>

\* HistoryWindow.vue:31-33  continuation of refreshHistory; the one awaited by
\* onMounted goes on to listenTranslationHistoryUpdates (HistoryWindow.vue:56,
\* history.ts:34-43: null outside the desktop application)
FetchReturns ==
  /\ fetches # <<>>
  /\ Head(fetches) # Pending
  /\ entries' = Fetched(Head(fetches), entries)
  /\ loading' = FALSE
  /\ fetches' = Tail(fetches)
  /\ IF hwPc = "fetch"
       THEN /\ hwPc' = "listen"
            /\ hwListenReply' = IF isTauri THEN Pending ELSE Failure
       ELSE UNCHANGED << hwPc, hwListenReply >>
  /\ UNCHANGED << tvars, mvars, hwAlive, hwListeners, hwUnlistenFns, updates >>

\* the event system answers the pending listen(): the listener is
\* registered, or the call rejects
HwBackendListen ==
  /\ hwPc = "listen"
  /\ hwListenReply = Pending
  /\ \/ hwListeners' = TRUE /\ hwListenReply' = <<"ok">>
     \/ hwListeners' = hwListeners /\ hwListenReply' = Failure
  /\ UNCHANGED << tvars, mvars, hwPc, hwAlive, entries, loading, fetches,
                  hwUnlistenFns, updates >>

\* HistoryWindow.vue:56-59  continuation after
\* await listenTranslationHistoryUpdates(...)
HwListenReturns ==
  /\ hwPc = "listen"
  /\ hwListenReply # Pending
  /\ hwUnlistenFns' = (hwListenReply # Failure)
  /\ hwPc' = "mounted"
  /\ UNCHANGED << tvars, mvars, hwAlive, entries, loading, fetches,
                  hwListenReply, hwListeners, updates >>

\* backend record_translation_history invoked by the main window
\* (spec.md 4.4 append): the entry is appended and the subscribed listeners
\* are notified
HistoryAppend(e) ==
  /\ isTauri
  /\ Len(history) < MaxHistory
  /\ history' = RecordHistory(history, << e >>)
  /\ updates' = IF hwListeners THEN updates + 1 ELSE updates
  /\ UNCHANGED << isTauri, apiKey, isPaused, originalText, translatedText,
                  streaming, controller, lastMessage, openAIConstructor,
                  calls, reqLog, cache, mvars, hwPc, hwAlive, entries,
                  loading, fetches, hwListenReply, hwListeners,
                  hwUnlistenFns >>

\* HistoryWindow.vue:56  the translation_history_updated handler; an event
\* that arrives after the listener was removed is dropped
UpdateEvent ==
  /\ updates > 0
  /\ updates' = updates - 1
  /\ IF hwListeners
       THEN RefreshHistory
       ELSE UNCHANGED << loading, fetches >>
  /\ UNCHANGED << tvars, mvars, hwPc, hwAlive, entries, hwListenReply,
                  hwListeners, hwUnlistenFns >>

\* HistoryWindow.vue:77  the refresh button
RefreshClick ==
  /\ hwAlive
  /\ RefreshHistory
  /\ UNCHANGED << tvars, mvars, hwPc, hwAlive, entries, hwListenReply,
                  hwListeners, hwUnlistenFns, updates >>

\* HistoryWindow.vue:62-64  onBeforeUnmount
HwUnmount ==
  /\ hwAlive
  /\ hwAlive' = FALSE
  /\ hwListeners' = (hwListeners /\ ~hwUnlistenFns)
  /\ UNCHANGED << tvars, mvars, hwPc, entries, loading, fetches,
                  hwListenReply, hwUnlistenFns, updates >>

NextHistoryWindow ==
  \/ BackendList /\ UNCHANGED xvars
  \/ FetchReturns /\ UNCHANGED xvars
  \/ HwBackendListen /\ UNCHANGED xvars
  \/ HwListenReturns /\ UNCHANGED xvars
  \/ \E e \in Entries : HistoryAppend(e) /\ UNCHANGED xvars
  \/ UpdateEvent /\ UNCHANGED xvars
  \/ RefreshClick /\ UNCHANGED xvars
  \/ HwUnmount /\ UNCHANGED xvars

SpecHistoryWindow == InitHistoryWindow /\ [][NextHistoryWindow]_vars

\* ============================================================ history log
\* The history list lives in the backend (spec.md 4.4); the window only
\* invokes record_translation_history (history.ts:13-21).  SpecHistoryLog
\* starts from a persisted list two entries short of the cap and appends.
Filler(i) ==
  [ original |-> <<"a">>, translation |-> IF i % 2 = 0 THEN <<"x">> ELSE <<"y">> ]

InitHistoryLog ==
  /\ MainMounted
  /\ HistoryClosed
  /\ CompatIdle
  /\ DeltasIdle
  /\ SettingsIdle
  /\ TitleBarIdle
  /\ isTauri = TRUE
  /\ apiKey = <<"k">>
  /\ isPaused = FALSE
  /\ originalText = <<>>
  /\ translatedText = <<>>
  /\ streaming = FALSE
  /\ controller = Null
  /\ lastMessage = << "none", <<>> >>
  /\ openAIConstructor = FALSE
  /\ calls = <<>>
  /\ reqLog = <<>>
  /\ cache = [ k \in Keys |-> None ]
  /\ history = [ i \in 1..(HistoryCap - 2) |-> Filler(i) ]
  /\ appended = history

\* history.ts:13-21 recordTranslationHistory answered by the backend
LogAppend(e) ==
  /\ Len(appended) < HistoryCap - 2 + MaxAppends
  /\ history' = RecordHistory(history, << e >>)
  /\ appended' = Append(appended, e)
  /\ UNCHANGED << isTauri, apiKey, isPaused, originalText, translatedText,
                  streaming, controller, lastMessage, openAIConstructor,
                  calls, reqLog, cache, restLog >>

NextHistoryLog ==
  \/ \E e \in Entries : LogAppend(e)

SpecHistoryLog == InitHistoryLog /\ [][NextHistoryLog]_vars

\* ================================================= OpenAI-compatible input
\* The HTTP listener is the backend's (spec.md 4.6, README.md:9, 21-24): with
\* the flag on, a POST to /v1/chat/completions that carries a user message
\* publishes the message as incoming_text; the answer is always 404.  The
\* window tells the backend the flag (App.vue:80-84, 301-308) and receives
\* the events (App.vue:94-100).
NotFound == 404

UserMessages == Payloads \ { <<>> }

InitCompat ==
  /\ MainMounted
  /\ HistoryClosed
  /\ LogIdle
  /\ DeltasIdle
  /\ SettingsIdle
  /\ TitleBarIdle
  /\ isTauri = TRUE
  /\ apiKey = <<"k">>
  /\ isPaused = FALSE
  /\ originalText = <<>>
  /\ translatedText = <<>>
  /\ streaming = FALSE
  /\ controller = Null
  /\ lastMessage = << "none", <<>> >>
  /\ openAIConstructor = FALSE
  /\ calls = <<>>
  /\ reqLog = <<>>
  /\ cache = [ k \in Keys |-> None ]
  /\ history = <<>>
  /\ openaiCompatibleInput \in BOOLEAN
  /\ syncQueue = << openaiCompatibleInput >>
  /\ compatEnabled \in BOOLEAN
  /\ httpLog = <<>>
  /\ incoming = <<>>

\* SettingsWindow.vue:174 the switch, then the watch at App.vue:80-84 calling
\* syncOpenAICompatibleInput (App.vue:301-304) up to its await
ToggleCompat ==
  /\ Len(syncQueue) < MaxSync
  /\ openaiCompatibleInput' = ~openaiCompatibleInput
  /\ syncQueue' = Append(syncQueue, ~openaiCompatibleInput)
  /\ UNCHANGED << tvars, restCompat, compatEnabled, httpLog,
                  incoming >>

\* backend set_openai_compatible_input; a rejection is only logged by the
\* window (App.vue:305-307)
BackendSetCompat ==
  /\ syncQueue # <<>>
  /\ syncQueue' = Tail(syncQueue)
  /\ compatEnabled' \in { Head(syncQueue), compatEnabled }
  /\ UNCHANGED << tvars, restCompat, openaiCompatibleInput, httpLog,
                  incoming >>

\* backend: POST /v1/chat/completions with user message msg
PostChat(msg) ==
  /\ Len(httpLog) < MaxPosts
  /\ httpLog' = Append(httpLog, << msg, NotFound >>)
  /\ incoming' = IF compatEnabled /\ "incoming_text" \in listeners
                   THEN Append(incoming, msg)
                   ELSE incoming
  /\ UNCHANGED << tvars, restCompat, openaiCompatibleInput,
                  syncQueue, compatEnabled >>

\* the event reaches the incoming_text listener (App.vue:94-100)
DeliverIncoming ==
  /\ incoming # <<>>
  /\ incoming' = Tail(incoming)
  /\ IncomingText(Head(incoming))
  /\ UNCHANGED << restCompat, openaiCompatibleInput, syncQueue,
                  compatEnabled, httpLog >>

NextCompat ==
  \/ ToggleCompat
  \/ BackendSetCompat
  \/ \E msg \in UserMessages : PostChat(msg)
  \/ DeliverIncoming
  \/ \E c \in Calls : BackendLookup(c) /\ UNCHANGED << mvars, hvars, xvars >>
  \/ \E c \in Calls : LookupReturns(c) /\ UNCHANGED << mvars, hvars, xvars >>
  \/ \E c \in Calls : ClientReady(c) /\ UNCHANGED << mvars, hvars, xvars >>
  \/ \E c \in Calls : CreateResolves(c) /\ UNCHANGED << mvars, hvars, xvars >>
  \/ \E c \in Calls : \E ch \in DeltaChars :
       StreamChunk(c, <<ch>>) /\ UNCHANGED << mvars, hvars, xvars >>
  \/ \E c \in Calls : StreamEnds(c) /\ UNCHANGED << mvars, hvars, xvars >>
  \/ \E c \in Calls : \E msg \in ErrMessages :
       RequestFails(c, msg) /\ UNCHANGED << mvars, hvars, xvars >>
  \/ \E c \in Calls : AbortRejects(c) /\ UNCHANGED << mvars, hvars, xvars >>
  \/ \E c \in Calls : BackendStore(c) /\ UNCHANGED << mvars, hvars, xvars >>
  \/ \E c \in Calls : StoreReturns(c) /\ UNCHANGED << mvars, hvars, xvars >>

SpecCompat == InitCompat /\ [][NextCompat]_vars

\* ======================================================= deltas by request
\* SpecDeltas is Spec with one piece of bookkeeping: own[c] collects the
\* deltas that the stream of invocation c delivers (App.vue:195-198), whatever
\* happens to the shared accumulator in between.
restDeltas == << mvars, hvars, lvars, cvars, svars, bvars >>

StreamChunkOwn(c, delta) ==
  /\ StreamChunk(c, delta)
  /\ own' = [ own EXCEPT ![c] = own[c] \o delta ]

NextDeltas ==
  \/ \E p \in Payloads : IncomingText(p) /\ UNCHANGED << restDeltas, own >>
  \/ \E p \in Payloads : HandleManualTranslate(p) /\ UNCHANGED << restDeltas, own >>
  \/ HandleRetranslate /\ UNCHANGED << restDeltas, own >>
  \/ StopStream /\ UNCHANGED << restDeltas, own >>
  \/ \E key \in ApiKeys : SettingsChange(key) /\ UNCHANGED << restDeltas, own >>
  \/ \E c \in Calls : BackendLookup(c) /\ UNCHANGED << restDeltas, own >>
  \/ \E c \in Calls : LookupReturns(c) /\ UNCHANGED << restDeltas, own >>
  \/ \E c \in Calls : ClientReady(c) /\ UNCHANGED << restDeltas, own >>
  \/ \E c \in Calls : CreateResolves(c) /\ UNCHANGED << restDeltas, own >>
  \/ \E c \in Calls : \E ch \in DeltaChars :
       StreamChunkOwn(c, <<ch>>) /\ UNCHANGED restDeltas
  \/ \E c \in Calls : StreamEnds(c) /\ UNCHANGED << restDeltas, own >>
  \/ \E c \in Calls : \E msg \in ErrMessages :
       RequestFails(c, msg) /\ UNCHANGED << restDeltas, own >>
  \/ \E c \in Calls : AbortRejects(c) /\ UNCHANGED << restDeltas, own >>
  \/ \E c \in Calls : BackendStore(c) /\ UNCHANGED << restDeltas, own >>
  \/ \E c \in Calls : StoreReturns(c) /\ UNCHANGED << restDeltas, own >>

SpecDeltas == Init /\ [][NextDeltas]_vars

\* ================================================================ settings
\* useSettingsState (part_004:115-173) in the desktop application.  A version
\* of the settings is a number; DefaultSettings is defaultSettings, Empty an
\* absent entry.  The watcher on `settings` (part_004:161-170) is flushed as a
\* microtask, before any timer, reply or notification reaches the window, so
\* it runs in the step that assigns settings.value.  The store, its change
\* notifications and the other windows are outside this module.
restSettings == << tvars, mvars, hvars, lvars, cvars, gvars, bvars >>

Refresh(first) ==
  [ pc |-> "load", val |-> Empty, failed |-> FALSE, first |-> first, w |-> 0 ]

Persist(val, origin) == [ val |-> val, origin |-> origin, state |-> "sent" ]

Remove(seq, i) == SubSeq(seq, 1, i - 1) \o SubSeq(seq, i + 1, Len(seq))

\* part_004:163-165  the watcher: persistSettings(val) unless syncingFromStore
Watcher(log, val, origin, syncing) ==
  IF syncing THEN log ELSE Append(log, Persist(val, origin))

\* the state right after the synchronous head of onMounted
\* (part_004:135-136, 120-122): the first refresh awaits the store
InitSettings ==
  /\ MainMounted
  /\ HistoryClosed
  /\ LogIdle
  /\ CompatIdle
  /\ DeltasIdle
  /\ TitleBarIdle
  /\ isTauri = TRUE
  /\ apiKey = <<"k">>
  /\ isPaused = FALSE
  /\ originalText = <<>>
  /\ translatedText = <<>>
  /\ streaming = FALSE
  /\ controller = Null
  /\ lastMessage = << "none", <<>> >>
  /\ openAIConstructor = FALSE
  /\ calls = <<>>
  /\ reqLog = <<>>
  /\ cache = [ k \in Keys |-> None ]
  /\ history = <<>>
  /\ settingsVal = DefaultSettings
  /\ syncingFromStore = TRUE
  /\ refreshes = << Refresh(TRUE) >>
  /\ timers = 0
  /\ subscribed = FALSE
  /\ changes = 0
  /\ persists = <<>>
  /\ stored \in { Empty } \cup Versions
  /\ legacy \in { Empty } \cup Versions
  /\ others = 0

\* store.init / store.get answer (part_004:68-69), or throw
StoreAnswers(i) ==
  /\ refreshes[i].pc = "load"
  /\ \/ refreshes' = [ refreshes EXCEPT ![i].pc = "loaded", ![i].val = stored ]
     \/ refreshes' = [ refreshes EXCEPT ![i].pc = "loaded", ![i].failed = TRUE ]
  /\ UNCHANGED << restSettings, settingsVal, syncingFromStore, timers,
                  subscribed, changes, persists, stored, legacy, others >>

\* part_004:122-123  settings.value = <loaded>; the watcher; then
\* syncTextReplacements is awaited
Assign(i, val, rs) ==
  /\ settingsVal' = val
  /\ persists' = Watcher(persists, val, "refresh", syncingFromStore)
  /\ refreshes' = [ rs EXCEPT ![i].pc = "sync" ]

\* part_004:70-85  continuation of loadPersistedSettings after the store
\* answered: the stored settings, or the legacy copy (persisted first), or
\* the defaults
LoadContinues(i) ==
  /\ refreshes[i].pc = "loaded"
  /\ IF ~refreshes[i].failed /\ refreshes[i].val # Empty
       THEN /\ Assign(i, refreshes[i].val, refreshes)
            /\ Len(persists') <= MaxPersists
            /\ legacy' = legacy
       ELSE IF legacy # Empty
         THEN /\ Len(persists) < MaxPersists
              /\ persists' = Append(persists, Persist(legacy, "migration"))
              /\ refreshes' = [ refreshes EXCEPT ![i].pc = "migrate",
                                                 ![i].val = legacy,
                                                 ![i].w = Len(persists) + 1 ]
              /\ UNCHANGED << settingsVal, legacy >>
         ELSE /\ Assign(i, DefaultSettings, refreshes)
              /\ Len(persists') <= MaxPersists
              /\ legacy' = legacy
  /\ UNCHANGED << restSettings, syncingFromStore, timers, subscribed, changes,
                  stored, others >>

\* the store handles a persistSettings call (part_004:106-109): the value is
\* written and the change announced, or the call throws and the window logs
\* it (part_004:110-112)
StoreWrite(j) ==
  /\ persists[j].state = "sent"
  /\ \A k \in 1..(j - 1) : persists[k].state # "sent"
  /\ \/ /\ persists' = [ persists EXCEPT ![j].state = "ok" ]
        /\ stored' = persists[j].val
        /\ changes' = IF subscribed THEN changes + 1 ELSE changes
     \/ /\ persists' = [ persists EXCEPT ![j].state = "failed" ]
        /\ UNCHANGED << stored, changes >>
  /\ UNCHANGED << restSettings, settingsVal, syncingFromStore, refreshes,
                  timers, subscribed, legacy, others >>

\* part_004:81  localStorage.removeItem(STORAGE_KEY)
RemoveLegacy(cur) == Empty

\* part_004:80-82, 122-123  persistSettings(parsed) has returned: the legacy
\* copy is removed and the parsed settings are assigned
MigrateReturns(i) ==
  /\ refreshes[i].pc = "migrate"
  /\ persists[refreshes[i].w].state # "sent"
  /\ legacy' = RemoveLegacy(legacy)
  /\ Assign(i, refreshes[i].val, refreshes)
  /\ Len(persists') <= MaxPersists
  /\ UNCHANGED << restSettings, syncingFromStore, timers, subscribed, changes,
                  stored, others >>

\* part_004:123-127, 136-143  set_text_replacements has answered:
\* setTimeout(..., 0); the refresh awaited by onMounted goes on to
\* store.onChange
SyncReturns(i) ==
  /\ refreshes[i].pc = "sync"
  /\ timers' = timers + 1
  /\ subscribed' = (subscribed \/ refreshes[i].first)
  /\ refreshes' = Remove(refreshes, i)
  /\ UNCHANGED << restSettings, settingsVal, syncingFromStore, changes,
                  persists, stored, legacy, others >>

\* part_004:125-127  the timer callback
TimerFires ==
  /\ timers > 0
  /\ timers' = timers - 1
  /\ syncingFromStore' = FALSE
  /\ UNCHANGED << restSettings, settingsVal, refreshes, subscribed, changes,
                  persists, stored, legacy, others >>

\* part_004:141-143, 120-122  a change notification arrives: a refresh starts
ChangeEvent ==
  /\ changes > 0
  /\ Len(refreshes) < MaxRefreshes
  /\ changes' = changes - 1
  /\ syncingFromStore' = TRUE
  /\ refreshes' = Append(refreshes, Refresh(FALSE))
  /\ UNCHANGED << restSettings, settingsVal, timers, subscribed, persists,
                  stored, legacy, others >>

\* another window persists version v
OtherWindowPersists(v) ==
  /\ others < MaxOthers
  /\ others' = others + 1
  /\ stored' = v
  /\ changes' = IF subscribed THEN changes + 1 ELSE changes
  /\ UNCHANGED << restSettings, settingsVal, syncingFromStore, refreshes,
                  timers, subscribed, persists, legacy >>

\* the user changes a setting in this window (v-model on `settings`), then
\* the watcher
UserEdit(v) ==
  /\ v # settingsVal
  /\ settingsVal' = v
  /\ persists' = Watcher(persists, v, "user", syncingFromStore)
  /\ Len(persists') <= MaxPersists
  /\ UNCHANGED << restSettings, syncingFromStore, refreshes, timers,
                  subscribed, changes, stored, legacy, others >>

NextSettings ==
  \/ \E i \in DOMAIN refreshes : StoreAnswers(i)
  \/ \E i \in DOMAIN refreshes : LoadContinues(i)
  \/ \E j \in DOMAIN persists : StoreWrite(j)
  \/ \E i \in DOMAIN refreshes : MigrateReturns(i)
  \/ \E i \in DOMAIN refreshes : SyncReturns(i)
  \/ TimerFires
  \/ ChangeEvent
  \/ \E v \in Versions : OtherWindowPersists(v)
  \/ \E v \in Versions : UserEdit(v)

SpecSettings == InitSettings /\ [][NextSettings]_vars

\* C27: a settings value assigned by refreshFromPersistence never triggers
\* persistSettings in that window, whatever the overlap of refreshes and
\* change notifications: no persistSettings call carries a reloaded value.
C27_ReloadNeverPersists ==
  \A j \in DOMAIN persists : persists[j].origin # "refresh"

\* C28: during the migration of legacy settings the localStorage copy is
\* removed only after the settings were successfully written to the store.
C28_LegacyRemovedAfterWrite ==
  [][ (legacy # Empty /\ legacy' = Empty)
        => \E i \in DOMAIN refreshes :
             /\ refreshes[i].pc = "migrate"
             /\ persists[refreshes[i].w].state = "ok" ]_vars

\* =============================================================== title bar
\* hideTitleBar / showTitleBar (part_007:387-432) in the desktop application
\* with alwaysShowTitleBar off, after rememberTitleBarHeight has measured the
\* bar.  Lengths are counted in bar heights.  A call is a record: kind, the
\* await it is suspended at (scale: appWindow.scaleFactor(); read:
\* outerSize()/outerPosition(); write: setSize()/setPosition()), and the size
\* and position it has read.
restTitleBar == << tvars, mvars, hvars, lvars, cvars, gvars, svars >>

BarTask(kind) == [ kind |-> kind, pc |-> "scale", h |-> 0, y |-> 0 ]

Max0(n) == IF n < 0 THEN 0 ELSE n

\* part_007:388  the guard of hideTitleBar (shouldAutoHideTitleBar() holds)
HideGuard == ~handlingTitleBar /\ titleBarVisible

\* part_007:434-438, 387-389  blur: hideTitleBar() runs up to the await in
\* getTitleBarPhysicalHeight
HandleWindowBlur ==
  /\ focused
  /\ focusEvents < MaxFocusEvents
  /\ focusEvents' = focusEvents + 1
  /\ focused' = FALSE
  /\ IF HideGuard
       THEN /\ Len(barTasks) < MaxBarTasks
            /\ barTasks' = Append(barTasks, BarTask("hide"))
       ELSE barTasks' = barTasks
  /\ UNCHANGED << restTitleBar, titleBarVisible, handlingTitleBar, winHeight,
                  winY >>

\* part_007:440-442, 408-418  focus: showTitleBar() runs up to the await in
\* getTitleBarPhysicalHeight, or returns
HandleWindowFocus ==
  /\ ~focused
  /\ focusEvents < MaxFocusEvents
  /\ focusEvents' = focusEvents + 1
  /\ focused' = TRUE
  /\ IF handlingTitleBar
       THEN UNCHANGED << titleBarVisible, barTasks >>
       ELSE /\ titleBarVisible' = TRUE
            /\ IF ~titleBarVisible
                 THEN /\ Len(barTasks) < MaxBarTasks
                      /\ barTasks' = Append(barTasks, BarTask("show"))
                 ELSE barTasks' = barTasks
  /\ UNCHANGED << restTitleBar, handlingTitleBar, winHeight, winY >>

\* part_007:389-393, 418-422  scaleFactor() has answered: handlingTitleBar is
\* set and the size and position are requested
ScaleAnswers(i) ==
  /\ barTasks[i].pc = "scale"
  /\ handlingTitleBar' = TRUE
  /\ barTasks' = [ barTasks EXCEPT ![i].pc = "read" ]
  /\ UNCHANGED << restTitleBar, focused, titleBarVisible, winHeight, winY,
                  focusEvents >>

\* part_007:393-399, 422-426  outerSize() and outerPosition() have answered:
\* the new size and position are requested
SizeAnswers(i) ==
  /\ barTasks[i].pc = "read"
  /\ barTasks' = [ barTasks EXCEPT ![i].pc = "write", ![i].h = winHeight,
                                   ![i].y = winY ]
  /\ UNCHANGED << restTitleBar, focused, titleBarVisible, handlingTitleBar,
                  winHeight, winY, focusEvents >>

\* part_007:394-404, 423-431  setSize() and setPosition() have been applied
\* and have answered; the finally clause
ResizeDone(i) ==
  /\ barTasks[i].pc = "write"
  /\ IF barTasks[i].kind = "hide"
       THEN /\ winHeight' = Max0(barTasks[i].h - BarHeight)
            /\ winY' = barTasks[i].y + BarHeight
            /\ titleBarVisible' = FALSE
       ELSE /\ winHeight' = barTasks[i].h + BarHeight
            /\ winY' = barTasks[i].y - BarHeight
            /\ titleBarVisible' = titleBarVisible
  /\ handlingTitleBar' = FALSE
  /\ barTasks' = Remove(barTasks, i)
  /\ UNCHANGED << restTitleBar, focused, focusEvents >>

\* part_007:401-405, 427-431  a window call throws: the catch clause logs it;
\* the finally clause
ResizeFails(i) ==
  /\ barTasks[i].pc \in { "read", "write" }
  /\ handlingTitleBar' = FALSE
  /\ barTasks' = Remove(barTasks, i)
  /\ UNCHANGED << restTitleBar, focused, titleBarVisible, winHeight, winY,
                  focusEvents >>

\* the desktop application, mounted, with the key set
InitTitleBar ==
  /\ Init
  /\ isTauri
  /\ apiKey = <<"k">>

NextTitleBar ==
  \/ HandleWindowBlur
  \/ HandleWindowFocus
  \/ \E i \in DOMAIN barTasks : ScaleAnswers(i)
  \/ \E i \in DOMAIN barTasks : SizeAnswers(i)
  \/ \E i \in DOMAIN barTasks : ResizeDone(i)
  \/ \E i \in DOMAIN barTasks : ResizeFails(i)

SpecTitleBar == InitTitleBar /\ [][NextTitleBar]_vars

\* the geometry that goes with titleBarVisible
GeometryConsistent ==
  IF titleBarVisible
    THEN winHeight = OriginalHeight /\ winY = OriginalY
    ELSE winHeight = OriginalHeight - BarHeight /\ winY = OriginalY + BarHeight

\* C30: for every interleaving of focus and blur events, hideTitleBar and
\* showTitleBar never resize the window concurrently; once they have
\* finished the geometry agrees with titleBarVisible (original height when
\* visible, one bar height less and y one bar height more when hidden); and
\* the bar is visible whenever the window has the focus.
C30_TitleBarConsistent ==
  /\ Cardinality({ i \in DOMAIN barTasks : barTasks[i].pc # "scale" }) <= 1
  /\ barTasks = <<>> => GeometryConsistent
  /\ (barTasks = <<>> /\ focused) => titleBarVisible

Requested(c) == \E i \in 1..Len(reqLog) : reqLog[i] = c

\* ================================================================ claims
Active(c) == InFlight(c) /\ ~calls[c].aborted

Missing == << "error", <<"missingApiKey">> >>

\* C1 (as claimed): at any time at most one completion request is in flight
\* and not aborted: when translate() starts a request, every request
\* started before it has been aborted.
C1_AtMostOneInFlight ==
  isTauri => Cardinality({ c \in Calls : Active(c) }) <= 1

\* C2 (as claimed): a non-forced input that arrives while a request for the
\* same trimmed text is in flight, with no cache entry written yet, issues
\* no network request of its own.
C2_NoSecondRequestForKey ==
  isTauri =>
    \A c \in Calls :
      (calls[c].dupAtStart /\ ~calls[c].force) => ~Requested(c)

\* C3 (as claimed): once translate() has begun for a newer input text, no
\* request for an older text is active.
C3_OnlyMostRecentActive ==
  isTauri =>
    \A c \in Calls : \A d \in Calls :
      (c < d /\ calls[c].content # calls[d].content) => ~Active(c)

\* C4: when the cache lookup of a non-forced translate(text) returns a
\* stored translation, that step displays exactly the returned value and
\* ends the invocation, and the invocation never issues a completion
\* request.
C4_CacheHitServed ==
  [][ \A c \in Calls :
        ( /\ calls[c].pc = "lookupReply"
          /\ calls'[c].pc # "lookupReply"
          /\ calls[c].reply \notin { None, Failure } )
        => ( /\ translatedText' = calls[c].reply
             /\ calls'[c].pc = "done"
             /\ calls'[c].outcome = "hit"
             /\ reqLog' = reqLog
             /\ ~Requested(c) ) ]_vars

C4_Witness ==
  \E c \in Calls :
    /\ calls[c].outcome = "hit"
    /\ ~calls[c].force
    /\ translatedText = cache[calls[c].content]
    /\ ~Requested(c)

\* C5 (as claimed): in the desktop application, an invocation whose stream
\* ended normally with a non-blank accumulated translation has passed that
\* translation to store_translation under its trimmed text and has recorded
\* the history entry (text, accumulated translation).
C5_CompletedStoredAndRecorded ==
  \A c \in Calls :
    ( /\ calls[c].outcome = "completed"
      /\ calls[c].arg # None
      /\ Trim(calls[c].arg) # <<>> )
    => calls[c].recorded =
         << [ original |-> calls[c].content, translation |-> calls[c].arg ] >>

\* C6: a cancelled session (its controller aborted by stopStream or by a
\* newer translate()) never invokes store_translation and never records a
\* history entry, whatever the accumulator holds.
C6_CancelledWritesNothing ==
  \A c \in Calls :
    calls[c].aborted =>
      /\ calls[c].arg = None
      /\ calls[c].recorded = <<>>
      /\ calls[c].pc \in { "requesting", "streaming", "done" }
      /\ calls[c].outcome \in { "none", "aborted" }

C6_Witness ==
  \E c \in Calls :
    /\ calls[c].outcome = "aborted"
    /\ translatedText # <<>>
    /\ reqLog = << c >>

\* C7: when the request of an invocation fails with a non-abort error, the
\* invocation makes no cache write (it never invokes store_translation) and
\* the step shows an error toast that carries the error's message (the
\* generic text when the error has none).
C7_FailureShownNotCached ==
  [][ \A c \in Calls :
        calls'[c].outcome = "failed"
        => ( /\ calls'[c].arg = None
             /\ calls'[c].pc = "done"
             /\ calls[c].outcome = "none"
                  => /\ cache' = cache
                     /\ lastMessage'[1] = "error"
                     /\ calls'[c].reply # None
                          => lastMessage'[2] = calls'[c].reply
                     /\ calls'[c].reply = None
                          => lastMessage'[2] = <<"translationFailed">> ) ]_vars

C7_Witness ==
  \E c \in Calls :
    /\ calls[c].outcome = "failed"
    /\ calls[c].reply = <<"boom">>
    /\ lastMessage = << "error", <<"boom">> >>
    /\ translatedText # <<>>
    /\ cache[calls[c].content] = None

\* C8 (as claimed): a request that fails records no history entry, even when
\* partial output had been accumulated before the error.
C8_FailureRecordsNoHistory ==
  \A c \in Calls : calls[c].outcome = "failed" => calls[c].recorded = <<>>

NoKeyStep(c) ==
  /\ calls'[c].outcome = "nokey"
  /\ (c \in Calls => calls[c].outcome = "none")

\* C9 (as claimed): when translate() finds the credential empty (after a
\* cache miss, or with the lookup skipped), it reports the missing-credential
\* error, has issued no network request, and leaves controller null and
\* streaming false.
C9_NoKeyLeavesNoSession ==
  [][ \A c \in DOMAIN calls' :
        NoKeyStep(c) => ( /\ lastMessage' = Missing
                          /\ reqLog' = reqLog
                          /\ controller' = Null
                          /\ ~streaming' ) ]_vars

\* C9 (amended): such an invocation reports the missing-credential error,
\* returns, never issues a network request and starts no session of its
\* own; controller is null and streaming is false when it returns, unless
\* another invocation has issued a request since this one was called, whose
\* session it leaves as it is.
C9_NoKeyStartsNoSession ==
  [][ \A c \in DOMAIN calls' :
        /\ calls'[c].outcome = "nokey" =>
             /\ calls'[c].pc = "done"
             /\ \A i \in 1..Len(reqLog') : reqLog'[i] # c
        /\ NoKeyStep(c) =>
             /\ lastMessage' = Missing
             /\ reqLog' = reqLog
             /\ \/ controller' = Null /\ ~streaming'
                \/ /\ c \in Calls
                   /\ controller' = controller /\ streaming' = streaming
                   /\ \E i \in (calls[c].reqAtStart + 1)..Len(reqLog) :
                        reqLog[i] = controller /\ reqLog[i] # c ]_vars

C9_Witness ==
  \E c \in Calls :
    /\ calls[c].outcome = "nokey"
    /\ ~calls[c].force
    /\ cache[calls[c].content] = None
    /\ lastMessage = Missing
    /\ controller = Null /\ ~streaming
    /\ \E d \in Calls : d < c /\ calls[d].aborted

\* C10: when the cleanup of a cancelled session runs, it leaves controller
\* null and streaming false; a later translate() of the identical text is
\* not held back by the cancelled session (the witness: it has issued a
\* fresh request).
C10_CancelReleases ==
  [][ \A c \in Calls :
        ( calls[c].aborted /\ calls[c].pc # "done" /\ calls'[c].pc = "done" )
        => ( /\ controller' = Null
             /\ ~streaming'
             /\ calls'[c].outcome = "aborted" ) ]_vars

C10_Witness ==
  \E c \in Calls : \E d \in Calls :
    /\ c < d
    /\ calls[c].outcome = "aborted"
    /\ calls[d].content = calls[c].content
    /\ \E i \in 1..Len(reqLog) : reqLog[i] = d /\ i > calls[d].reqAtStart
    /\ controller = d /\ streaming
    /\ Active(d)

\* C11: a failed request is never retried: an invocation issues at most one
\* completion request, a returned invocation never resumes, and a request is
\* only ever issued by an invocation that has not issued one before; a later
\* non-forced translate() in the desktop application starts at the cache
\* lookup.
C11_NoAutomaticRetry ==
  [][ /\ \A c \in Calls :
           calls[c].pc = "done" => calls'[c] = calls[c]
      /\ reqLog' # reqLog =>
           \E c \in Calls : /\ reqLog' = Append(reqLog, c)
                            /\ ~Requested(c)
                            /\ calls[c].outcome = "none"
      /\ \A c \in DOMAIN calls' :
           (c \notin Calls /\ isTauri /\ ~calls'[c].force)
             => calls'[c].pc = "lookupSent" ]_vars

C11_Witness ==
  \E c \in Calls : \E d \in Calls :
    /\ c < d
    /\ calls[c].outcome = "failed"
    /\ calls[d].content = calls[c].content
    /\ ~calls[d].force
    /\ isTauri
    /\ reqLog = << c, d >>

HitStep(c) ==
  /\ calls[c].outcome = "none"
  /\ calls'[c].outcome = "hit"

C13_RetranslateSkipsCache ==
  [][ /\ \A c \in Calls :
           calls[c].force =>
             /\ calls[c].pc \notin { "lookupSent", "lookupReply" }
             /\ calls[c].outcome # "hit"
             /\ \/ calls[c].outcome = "nokey"
                \/ calls[c].pc = "ctor"
                \/ Requested(c)
      /\ \A c \in DOMAIN calls' :
           (c \notin Calls /\ calls'[c].force) =>
             /\ calls'[c].content = Trim(originalText)
             /\ IF apiKey = <<>>
                  THEN calls'[c].outcome = "nokey"
                  ELSE calls'[c].pc = "ctor" /\ calls'[c].outcome = "none" ]_vars

C13_Witness ==
  \E c \in Calls :
    /\ calls[c].force
    /\ isTauri
    /\ Requested(c)
    /\ cache[calls[c].content] # None
    /\ calls[c].reqAtStart = Len(reqLog) - 1

\* C14: a cache value is immutable once written: no invocation issues
\* store_translation for a key that already has an entry with a translation
\* different from the stored one.
C14_NoStoreChangesValue ==
  \A c \in Calls :
    (calls[c].pc = "storeSent" /\ cache[calls[c].content] # None)
      => calls[c].arg = cache[calls[c].content]

\* the continuation of invocation c after store_translation rejected
StoreFailedStep(c) ==
  /\ calls[c].pc = "storeReply"
  /\ calls[c].reply = Failure
  /\ calls[c].outcome = "none"
  /\ calls'[c].pc = "done"

\* C15: if store_translation fails after a stream ended normally, the
\* continuation leaves the display as it is, raises no error, completes the
\* invocation, and records the history entry (text, translation the stream
\* accumulated) when that translation is not blank.
C15_StoreFailureStillRecords ==
  [][ \A c \in Calls :
        StoreFailedStep(c) =>
          /\ translatedText' = translatedText
          /\ lastMessage' = lastMessage
          /\ calls'[c].outcome = "completed"
          /\ Trim(calls[c].arg) # <<>> =>
               history' = Append(history, [ original |-> calls[c].content,
                                            translation |-> calls[c].arg ]) ]_vars

\* C16: cancelling a session discards its partial output: once the latest
\* invocation has been cancelled and has returned, and no other request was
\* issued after its own, the accumulator does not hold its partial text.
C16_CancelDiscardsPartial ==
  \A c \in Calls :
    ( /\ c = Len(calls)
      /\ calls[c].pc = "done"
      /\ calls[c].outcome = "aborted"
      /\ reqLog # <<>>
      /\ reqLog[Len(reqLog)] = c )
      => translatedText = <<>>

\* C17: no listener is leaked after a window closes: once a window has been
\* unmounted and its onMounted has run to its end, none of the listeners it
\* registered is still subscribed.
C17_NoLeakedListeners ==
  /\ (~mainAlive /\ mainPc = "mounted") => listeners = {}
  /\ (~hwAlive /\ hwPc = "mounted") => ~hwListeners

\* the main window is mounted in the desktop application, onMounted has run
\* to its end, no event is on its way, and the listener has failed to bind
FaultSettled ==
  /\ isTauri
  /\ mainAlive
  /\ mainPc = "mounted"
  /\ faultQueue = <<>>
  /\ faults # <<>>

FaultShown ==
  \E i \in 1..Len(faults) :
    /\ portError = Warning(faults[i])
    /\ serverPort = faults[i][1]

EmptyInputStep(p) ==
  /\ Trim(p) = <<>>
  /\ \/ IncomingText(p)
     \/ HandleManualTranslate(p)
     \/ p = originalText /\ HandleRetranslate

\* C19: an input whose content is empty after trimming is a no-op: no cache
\* lookup, no network request, no cache write, no history entry, and the
\* running session, its controller and its output are left as they are.
C19_EmptyInputNoOp ==
  [][ \A p \in Payloads :
        EmptyInputStep(p) =>
          /\ calls' = calls
          /\ reqLog' = reqLog
          /\ cache' = cache
          /\ history' = history
          /\ controller' = controller
          /\ streaming' = streaming
          /\ translatedText' = translatedText ]_vars

\* a whitespace-only text has arrived while a session is streaming
C19_Witness ==
  /\ originalText = << WS >>
  /\ lastMessage = << "warning", <<"noContent">> >>
  /\ controller # Null
  /\ calls[controller].pc = "streaming"
  /\ ~calls[controller].aborted
  /\ streaming
  /\ translatedText # <<>>

\* C20: the history window is hydrated on open and kept current: once it is
\* mounted and subscribed, no fetch and no translation_history_updated event
\* is pending, and it displays a list it fetched, that list is the backend's
\* current history, oldest first.
C20_HistoryWindowCurrent ==
  ( /\ isTauri
    /\ hwAlive
    /\ hwPc = "mounted"
    /\ hwListeners
    /\ fetches = <<>>
    /\ updates = 0
    /\ entries # <<>> ) => entries = history

\* C21: the history never holds more than 1000 entries, and it is always the
\* newest entries it was given, in arrival order: at the cap exactly the
\* oldest are dropped.
C21_HistoryCapped ==
  /\ Len(history) <= HistoryCap
  /\ history = SubSeq(appended,
                      IF Len(appended) > HistoryCap
                        THEN Len(appended) - HistoryCap + 1 ELSE 1,
                      Len(appended))

C21_Witness ==
  /\ Len(appended) = HistoryCap + 2
  /\ Len(history) = HistoryCap
  /\ history[HistoryCap] # history[HistoryCap - 1]
  /\ history[1] = Filler(3)

C23_StoredIsOwnOutput ==
  \A c \in Calls :
    (calls[c].pc = "storeSent" /\ calls[c].outcome = "none")
      => calls[c].arg = own[c]

\* C24: the cleanup (finally clause) of an aborted request never clears the
\* controller or the streaming flag of a newer request, so the request that
\* holds the controller stays stoppable by stopStream or the next translate().
C24_CleanupKeepsNewerController ==
  [][ \A c \in Calls :
        ( /\ calls[c].aborted
          /\ InFlight(c)
          /\ calls'[c].pc = "done"
          /\ controller # Null
          /\ controller # c )
          => (controller' = controller /\ streaming' = streaming) ]_vars

\* C25: the history entry recorded after a completed stream pairs the text
\* with that stream's own output, the value handed to store_translation,
\* whatever happened to the displayed translation while the store was
\* pending.
C25_RecordedIsOwnOutput ==
  [][ \A c \in Calls :
        ( /\ calls[c].pc = "storeReply"
          /\ calls[c].outcome = "none"
          /\ calls'[c].pc = "done"
          /\ history' # history )
          => history' = Append(history, [ original |-> calls[c].content,
                                          translation |-> calls[c].arg ]) ]_vars

\* the step is an input (incoming text, manual input or retranslate) taken
\* while translation is paused
PausedInputStep ==
  /\ isPaused
  /\ \/ \E p \in Payloads : IncomingText(p) \/ HandleManualTranslate(p)
     \/ HandleRetranslate

\* C26: while translation is paused an input has no effect on the sessions:
\* no abort, no cache lookup, no request, no cache write, no history entry;
\* switching the pause on or off leaves a streaming session as it is.
C26_PausedInputNoEffect ==
  [][ (PausedInputStep \/ isPaused' # isPaused) =>
        /\ calls' = calls
        /\ reqLog' = reqLog
        /\ cache' = cache
        /\ history' = history
        /\ controller' = controller
        /\ streaming' = streaming
        /\ translatedText' = translatedText ]_vars

\* a text arrived while paused and the session that was streaming goes on
C26_Witness ==
  /\ isPaused
  /\ Len(calls) = 1
  /\ calls[1].content = <<"b">>
  /\ originalText = << WS, "a" >>
  /\ controller = 1
  /\ calls[1].pc = "streaming"
  /\ ~calls[1].aborted
  /\ streaming

\* the continuation of a rejected cache lookup of invocation c
LookupFailedStep(c) ==
  /\ c \in Calls
  /\ calls[c].pc = "lookupReply"
  /\ calls[c].reply = Failure
  /\ calls'[c].pc # "lookupReply"

\* C29: when get_cached_translation rejects, translate() treats it as a miss:
\* it goes on to the credential check (the missing-key toast and return, or
\* the construction of the client that issues the request); the rejection
\* neither aborts the invocation, nor shows an error of its own, nor records
\* a history entry.
C29_LookupFailureIsMiss ==
  [][ \A c \in 1..MaxCalls :
        LookupFailedStep(c)
          => /\ history' = history
             /\ translatedText' = translatedText
             /\ calls'[c].aborted = calls[c].aborted
             /\ calls'[c].recorded = <<>>
             /\ IF MissingApiKey(apiKey)
                  THEN /\ calls'[c].pc = "done"
                       /\ calls'[c].outcome = "nokey"
                       /\ lastMessage' = Missing
                  ELSE /\ calls'[c].pc = "ctor"
                       /\ calls'[c].outcome = "none"
                       /\ lastMessage' = lastMessage ]_vars

\* In SpecWarm key "a" is cached from the start and no entry is ever removed,
\* so an unforced invocation for "a" that issued a request is one whose
\* lookup was rejected.
C29_Witness ==
  \E c \in Calls :
    /\ isTauri
    /\ calls[c].content = <<"a">>
    /\ ~calls[c].force
    /\ cache[<<"a">>] # None
    /\ Requested(c)
    /\ calls[c].pc = "streaming"
    /\ ~calls[c].aborted
    /\ history = <<>>

====
